---- MODULE Spec2Model ----
(***************************************************************************)
(* Model of the current-distribution-table generator of bran_analysis      *)
(* (src/src_currents/current_analysis.py).                                 *)
(*                                                                         *)
(* Units.  Speeds are integers in cm/s (0.05 m/s = 5), directions are      *)
(* whole degrees, and table cells are integers in hundredths of a percent  *)
(* (8.33 % = 833), so that round(2) is an integer rounding.  Rounding is   *)
(* numpy's round-half-to-even, taken on the exact decimal value; the       *)
(* binary floating-point representation error of the source is not         *)
(* modelled.                                                               *)
(*                                                                         *)
(* A run is one call of generate_current_distribution_table on an input    *)
(* table df; the call's locals current_df and dist (after pd.crosstab) are *)
(* kept in the state, with what the caller gets: the table or the          *)
(* exception.                                                              *)
(***************************************************************************)
EXTENDS Integers, Sequences, FiniteSets, TLC

VARIABLES
    df,          \* the input DataFrame: rows st_ocean, (year, month) of the index, velocidade, direcao
    call,        \* the arguments of the last call of generate_current_distribution_table
    current_df,  \* its local current_df: speed, direction, DirBin, SpeedBin
    crosstab,    \* its local dist right after pd.crosstab (line 69): counts
    result,      \* what the call gave its caller: a table, or the exception raised
    plot,        \* the last call of plot_wind_rose: its arguments and its df_plot
    analisar,    \* the period filter of analisar_dados_corrente.py: its arguments and its two series
    builds,      \* table builds run side by side on one df
    run,         \* run_analysis: its place in the two loops and the files written
    job          \* extrair_dados_eduarda.py: the station workers and what the script collects

vars == <<df, call, current_df, crosstab, result, plot, analisar, builds, run, job>>

(***************************************************************************)
(* Bounds of the model.                                                    *)
(***************************************************************************)
\* number of rows of df besides the twelve-sector block
MaxObs == 1

\* the most observations added to the twelve of the sector block in the
\* dense inputs
MaxExtra == 3

\* the number of stations of the station list
MaxStations == 3

\* the number of time steps of the dataset
MaxTimes == 2

(***************************************************************************)
(* Values.                                                                 *)
(***************************************************************************)
\* pd.cut's code for "no bin" (a NaN in the categorical column)
NaN == -1

\* period=None
None == "None"

\* speed_thresholds=None is written as the empty tuple
NoThresholds == << >>

RECURSIVE SumSeq(_)
SumSeq(s) == IF s = << >> THEN 0 ELSE Head(s) + SumSeq(Tail(s))

RECURSIVE MaxSeq(_)
MaxSeq(s) == IF Len(s) = 1 THEN s[1]
             ELSE LET m == MaxSeq(Tail(s)) IN IF s[1] >= m THEN s[1] ELSE m

\* numpy round: the integer nearest to num/den, a tie going to the even one
RoundHalfEven(num, den) ==
    LET q == num \div den
        r == num % den
    IN  IF 2 * r < den THEN q
        ELSE IF 2 * r > den THEN q + 1
        ELSE IF q % 2 = 0 THEN q ELSE q + 1

\* np.arange(0, 0.51, 0.05).tolist(), in cm/s
default_speed_thresholds == [i \in 1..11 |-> 5 * (i - 1)]

\* list(np.arange(0, 361, 30))
default_direction_bins == [i \in 1..13 |-> 30 * (i - 1)]

\* seasons = {'DJF': [12,1,2], ...}
seasons ==
    [DJF |-> {12, 1, 2}, MAM |-> {3, 4, 5}, JJA |-> {6, 7, 8}, SON |-> {9, 10, 11}]

\* MonthNames, had the parser taken an unknown word for January
MonthNames_lenient ==
    [January |-> 1, February |-> 2, March |-> 3, April |-> 4, May |-> 5,
     June |-> 6, July |-> 7, August |-> 8, September |-> 9, October |-> 10,
     November |-> 11, December |-> 12, Foobar |-> 1]

\* the month names strptime's %B reads (English locale), as month numbers
MonthNames ==
    [January |-> 1, February |-> 2, March |-> 3, April |-> 4, May |-> 5,
     June |-> 6, July |-> 7, August |-> 8, September |-> 9, October |-> 10,
     November |-> 11, December |-> 12]

\* bins_dir = np.arange(-15, 375, 30): -15, 15, ..., 345 (375 is not reached)
bins_dir == [i \in 1..13 |-> 30 * (i - 1) - 15]

\* labels_dir = direction_bins[:-1]
labels_dir == SubSeq(default_direction_bins, 1, Len(default_direction_bins) - 1)

\* directions = ["N", ..., "NNW", "Omni"]
directions ==
    <<"N", "NNE", "ENE", "E", "ESE", "SSE", "S", "SSW", "WSW", "W", "WNW", "NNW", "Omni">>

(***************************************************************************)
(* pd.cut(x, bins=<sequence>, right=False, labels=<list>).                 *)
(***************************************************************************)
\* bins.searchsorted(x, side="right") on increasing bins: how many edges are <= x
searchsorted_right(bins, x) == Cardinality({i \in 1..Len(bins) : bins[i] <= x})

\* cut refuses bins that decrease somewhere ("bins must increase
\* monotonically") and, unless there are exactly two edges, bins that repeat
\* an edge ("Bin edges must be unique")
cut_raises(bins) ==
    \/ \E i \in 1..(Len(bins) - 1) : bins[i + 1] < bins[i]
    \/ /\ Len(bins) # 2
       /\ \E i, j \in 1..Len(bins) : i # j /\ bins[i] = bins[j]

\* cut, had it clamped the values outside the edges into the end bins
cut_clamped(x, bins) ==
    LET ids == searchsorted_right(bins, x)
    IN  IF ids = 0 THEN 1 ELSE IF ids = Len(bins) THEN Len(bins) - 1 ELSE ids

\* the category code of x: ids, with ids = 0 and ids = len(bins) made NaN
cut(x, bins) ==
    LET ids == searchsorted_right(bins, x)
    IN  IF ids = 0 \/ ids = Len(bins) THEN NaN ELSE ids

(***************************************************************************)
(* generate_current_distribution_table, step by step.                      *)
(***************************************************************************)
\* subset = df[df['st_ocean'] == depth]
subset(d, depth) == SelectSeq(d, LAMBDA row : row.st_ocean = depth)

\* pd.to_datetime(period, format='%B') raises for anything but a month name
to_datetime_raises(period) == period \notin DOMAIN MonthNames

\* mask, had the months been counted from zero
mask_off_by_one(row, period) ==
    IF period \in DOMAIN seasons
    THEN (row.month - 1) \in seasons[period]
    ELSE (row.month - 1) = MonthNames[period]

\* mask: the rows the period keeps (period is not None)
mask(row, period) ==
    IF period \in DOMAIN seasons
    THEN row.month \in seasons[period]
    ELSE row.month = MonthNames[period]

\* speed and direction of the depth, masked by the period when there is one
filtered(d, depth, period) ==
    IF period = None THEN subset(d, depth)
    ELSE SelectSeq(subset(d, depth), LAMBDA row : mask(row, period))

\* DirBin: pd.cut on bins_dir, labelled by sector centre, then every direction
\* above 345 is set to the sector 0
DirBin(direction) ==
    IF direction > 345 THEN 0
    ELSE LET code == cut(direction, bins_dir)
         IN  IF code = NaN THEN NaN ELSE labels_dir[code]

\* SpeedBin: pd.cut on speed_thresholds (the code of the label "lo-hi")
SpeedBin(speed, speed_thresholds) == cut(speed, speed_thresholds)

\* current_df with its DirBin column, before SpeedBin is computed
with_DirBin(rows) ==
    [k \in 1..Len(rows) |->
        [speed |-> rows[k].velocidade, direction |-> rows[k].direcao,
         DirBin |-> DirBin(rows[k].direcao), SpeedBin |-> NaN]]

\* current_df with both columns
with_SpeedBin(cdf, speed_thresholds) ==
    [k \in 1..Len(cdf) |->
        [cdf[k] EXCEPT !.SpeedBin = SpeedBin(cdf[k].speed, speed_thresholds)]]

\* pd.crosstab(SpeedBin, DirBin), dropna=True: a row with a NaN in either
\* column is not counted, and only the speed bins and the sectors that were
\* counted at least once get a row or a column, in the order of the categories
pd_crosstab(cdf, speed_thresholds) ==
    LET counted == {k \in 1..Len(cdf) : cdf[k].SpeedBin # NaN /\ cdf[k].DirBin # NaN}
        index   == SelectSeq([i \in 1..(Len(speed_thresholds) - 1) |-> i],
                             LAMBDA i : \E k \in counted : cdf[k].SpeedBin = i)
        columns == SelectSeq(labels_dir,
                             LAMBDA c : \E k \in counted : cdf[k].DirBin = c)
    IN  [index |-> index,
         columns |-> columns,
         values |-> [r \in 1..Len(index) |-> [c \in 1..Len(columns) |->
             Cardinality({k \in counted : cdf[k].SpeedBin = index[r]
                                          /\ cdf[k].DirBin = columns[c]})]]]

\* dist.cumsum(axis=0): each row becomes the sum of the rows down to it
cumsum(values) ==
    [r \in 1..Len(values) |-> [c \in 1..Len(values[r]) |->
        SumSeq([q \in 1..r |-> values[q][c]])]]

\* percentages, had it divided by the number of observations counted in a cell
percentages_of_counted(values, n, mode) ==
    LET v == IF mode = "accumulate" THEN cumsum(values) ELSE values
        counted == SumSeq([r \in 1..Len(values) |-> SumSeq(values[r])])
    IN  [r \in 1..Len(v) |-> [c \in 1..Len(v[r]) |->
            RoundHalfEven(v[r][c] * 10000, counted)]]

\* percentages, had it accumulated the rows in either mode
percentages_accumulated(values, n, mode) ==
    LET v == cumsum(values)
    IN  [r \in 1..Len(v) |-> [c \in 1..Len(v[r]) |->
            IF n = 0 THEN NaN ELSE RoundHalfEven(v[r][c] * 10000, n)]]

\* percentages, had it divided each row by the number of observations of the row
percentages_per_row(values, n, mode) ==
    LET v == IF mode = "accumulate" THEN cumsum(values) ELSE values
    IN  [r \in 1..Len(v) |-> [c \in 1..Len(v[r]) |->
            RoundHalfEven(v[r][c] * 10000, SumSeq(values[r]))]]

\* dist * 100 / len(current_df), cumulated in 'accumulate' mode, then round(2)
percentages(values, n, mode) ==
    LET v == IF mode = "accumulate" THEN cumsum(values) ELSE values
    IN  [r \in 1..Len(v) |-> [c \in 1..Len(v[r]) |->
            RoundHalfEven(v[r][c] * 10000, n)]]

\* Omni, had the sum left the last sector out
Omni_short(row) == SumSeq(SubSeq(row, 1, Len(row) - 1))

\* dist['Omni'] = dist.sum(axis=1), for one row
Omni(row) == SumSeq(row)

\* the column c of the rows, top to bottom
column(rows, c) == [r \in 1..Len(rows) |-> rows[r][c]]

\* dist.loc['Total'] = dist.sum(): every column, Omni too, summed over the rows
Total(rows, ncols) == [c \in 1..ncols |-> SumSeq(column(rows, c))]

\* dist.loc['Mean'] = dist.iloc[:-1].mean().round(2): every column, Omni
\* too, averaged over the rows above Total
Mean(rows, ncols) ==
    [c \in 1..ncols |-> RoundHalfEven(SumSeq(column(rows, c)), Len(rows))]

\* dist.loc['Maximum'] = dist.iloc[:-2].max().round(2): every column, Omni
\* too, over the rows above Total and Mean
Maximum(rows, ncols) == [c \in 1..ncols |-> MaxSeq(column(rows, c))]

\* a row label of the table
Label(text, lo, hi) == [text |-> text, lo |-> lo, hi |-> hi]

\* labels_speed[i] = f"{round(lo, 2)}-{round(hi, 2)}"
labels_speed(speed_thresholds) ==
    [i \in 1..(Len(speed_thresholds) - 1) |->
        Label("lo-hi", speed_thresholds[i], speed_thresholds[i + 1])]

\* int(lbl) of a row label: Python's int() reads an optional sign and digits
\* only, and every label of labels_speed holds a "-" after its first number
int_raises(lbl) == lbl.text = "lo-hi"

\* the table of lines 70-78: the speed-bin rows with their Omni cell, then
\* Total, Mean and Maximum
dist_rows(ct, n, mode) ==
    LET ncols == Len(ct.columns) + 1
        pct   == percentages(ct.values, n, mode)
        rows  == [r \in 1..Len(pct) |-> Append(pct[r], Omni(pct[r]))]
    IN  rows \o <<Total(rows, ncols), Mean(rows, ncols), Maximum(rows, ncols)>>

summary_labels == <<Label("Total", 0, 0), Label("Mean", 0, 0), Label("Maximum", 0, 0)>>

NoTable == [index |-> << >>, columns |-> << >>, values |-> << >>]

NoCrosstab == [index |-> << >>, columns |-> << >>, values |-> << >>]

Raised(where, cdf, ct) ==
    [status |-> "ValueError", where |-> where, current_df |-> cdf,
     crosstab |-> ct, table |-> NoTable]

\* Lines 59-90, from the rows the filters kept: what the call raises or
\* returns, and the locals it leaves.
\* In 'accumulate' mode line 81 reads int(lbl) for every speed-bin row before
\* it writes any "< ..." label, so it raises as soon as there is such a row;
\* without one there is no sector column either and line 85 raises.
FromRows(rows, thresholds, mode) ==
    LET speed_thresholds ==
            IF thresholds = NoThresholds THEN default_speed_thresholds ELSE thresholds
        cdf1 == with_DirBin(rows)
    IN
    IF cut_raises(speed_thresholds)
    THEN Raised("cut", cdf1, NoCrosstab)
    ELSE
    LET cdf    == with_SpeedBin(cdf1, speed_thresholds)
        ct     == pd_crosstab(cdf, speed_thresholds)
        labels == labels_speed(speed_thresholds)
        index  == [r \in 1..Len(ct.index) |-> labels[ct.index[r]]]
    IN
    IF mode = "accumulate" /\ \E r \in 1..Len(index) : int_raises(index[r])
    THEN Raised("int", cdf, ct)
    ELSE IF Len(ct.columns) + 1 # Len(directions)
    THEN Raised("columns", cdf, ct)
    ELSE [status |-> "returned", where |-> "return", current_df |-> cdf,
          crosstab |-> ct,
          table |-> [index |-> index \o summary_labels,
                     columns |-> directions,
                     values |-> dist_rows(ct, Len(cdf), mode)]]

\* the period is neither None, a season code nor a month name: line 55 raises
period_raises(period) ==
    period # None /\ period \notin DOMAIN seasons /\ to_datetime_raises(period)

\* The whole call: the filters, then the table from the rows they keep
GenerateTable(d, depth, thresholds, period, mode) ==
    IF period_raises(period)
    THEN Raised("to_datetime", << >>, NoCrosstab)
    ELSE FromRows(filtered(d, depth, period), thresholds, mode)

\* df after line 45: df[df['st_ocean'] == depth] was a new frame, had the
\* selection been made in df itself
df_subset_in_place(d, depth) == subset(d, depth)

\* df after line 45: df[df['st_ocean'] == depth] is a new frame and df is
\* as it was; nothing after that line refers to df
df_after_subset(d, depth) == d

\* plot_wind_rose up to df_plot (averaging_window is None): the same depth
\* and period filter as the table, then the speed and direction columns
PlotWindRose(d, depth, period) ==
    IF period # None /\ period \notin DOMAIN seasons /\ to_datetime_raises(period)
    THEN [status |-> "ValueError", depth |-> depth, period |-> period, df_plot |-> << >>]
    ELSE LET rows == filtered(d, depth, period)
         IN  [status |-> "returned", depth |-> depth, period |-> period,
              df_plot |-> [k \in 1..Len(rows) |->
                              [speed |-> rows[k].velocidade, direction |-> rows[k].direcao]]]

\* a series of df as the sequence of the positions of its rows in df, which
\* stand for the timestamps of its index
series(d, depth) == SelectSeq([k \in 1..Len(d) |-> k], LAMBDA k : d[k].st_ocean = depth)

\* series[key] for a boolean array key: IndexError unless key is as long as
\* the series
boolean_index_raises(s, key) == Len(key) # Len(s)

boolean_index(s, key) ==
    LET RECURSIVE take(_)
        take(i) == IF i > Len(s) THEN << >>
                   ELSE (IF key[i] THEN <<s[i]>> ELSE << >>) \o take(i + 1)
    IN  take(1)

\* the period filter of analisar_dados_corrente.py: speed is replaced by its
\* filtered self first, and the mask applied to direction is then computed
\* from the index of the filtered speed
AnalisarFilter(d, depth, period) ==
    LET speed == series(d, depth)
        direction == series(d, depth)
        out(status, sp, di) ==
            [status |-> status, depth |-> depth, period |-> period,
             speed |-> sp, direction |-> di]
    IN  IF period = None THEN out("filtered", speed, direction)
        ELSE IF period \notin DOMAIN seasons /\ to_datetime_raises(period)
        THEN out("ValueError", speed, direction)
        ELSE LET key1 == [i \in 1..Len(speed) |-> mask(d[speed[i]], period)]
                 speed1 == boolean_index(speed, key1)
                 key2 == [i \in 1..Len(speed1) |-> mask(d[speed1[i]], period)]
             IN  IF boolean_index_raises(direction, key2)
                 THEN out("IndexError", speed1, direction)
                 ELSE out("filtered", speed1, boolean_index(direction, key2))

(***************************************************************************)
(* The inputs.                                                             *)
(***************************************************************************)
\* the st_ocean levels of the input
Depths == {1, 2}

\* The rows of df: twelve observations at depth 1 in January 2020, one per sector: 350
\* degrees for N and the lower edge of each other sector, the first six at
\* 7 cm/s and the others at 12 cm/s
SectorBlock ==
    [j \in 1..12 |->
        [st_ocean |-> 1, year |-> 2020, month |-> 1,
         velocidade |-> IF j <= 6 THEN 7 ELSE 12,
         direcao |-> IF j = 1 THEN 350 ELSE 30 * (j - 1) - 15]]

\* and up to MaxObs more, each any of these
Observations ==
    [st_ocean : Depths, year : {2021}, month : {1, 7},
     velocidade : {2, 5, 50}, direcao : {14, 15, 16, 344, 345}]

RECURSIVE SeqsUpTo(_, _)
SeqsUpTo(S, n) ==
    IF n = 0 THEN {<< >>}
    ELSE LET shorter == SeqsUpTo(S, n - 1)
         IN  shorter \cup {Append(s, x) : s \in shorter, x \in S}

Periods == {None, "DJF", "JJA", "January", "July", "Foobar"}

Modes == {"bins", "accumulate"}

ThresholdLists == {NoThresholds, <<0, 20>>, <<5, 10, 20>>, <<10, 5>>}

NoCall == [depth |-> 0, speed_thresholds |-> NoThresholds, period |-> None, mode |-> "none"]

NoResult == [status |-> "none", where |-> "none", table |-> NoTable]

NoPlot == [status |-> "none", depth |-> 0, period |-> None, df_plot |-> << >>]

NoAnalisar ==
    [status |-> "none", depth |-> 0, period |-> None, speed |-> << >>, direction |-> << >>]

NoBuilds == << >>

NoRun == [pc |-> "none", depths |-> << >>, d |-> 0, p |-> 0, files |-> {}]

NoJob == [pc |-> "none", workers |-> << >>, finished |-> << >>, data_records |-> << >>]

\* nothing has been called on df yet
Fresh ==
    /\ call = NoCall
    /\ current_df = << >>
    /\ crosstab = NoCrosstab
    /\ result = NoResult
    /\ plot = NoPlot
    /\ analisar = NoAnalisar

Init ==
    /\ df \in {SectorBlock \o extra : extra \in SeqsUpTo(Observations, MaxObs)}
    /\ Fresh
    /\ builds = NoBuilds
    /\ run = NoRun
    /\ job = NoJob

\* one call of generate_current_distribution_table on df, with any arguments
generate_current_distribution_table ==
    /\ Fresh
    /\ \E depth \in Depths, thresholds \in ThresholdLists, period \in Periods, mode \in Modes :
        \E out \in {GenerateTable(df, depth, thresholds, period, mode)} :
        /\ call' = [depth |-> depth, speed_thresholds |-> thresholds,
                    period |-> period, mode |-> mode]
        /\ current_df' = out.current_df
        /\ crosstab' = out.crosstab
        /\ result' = [status |-> out.status, where |-> out.where, table |-> out.table]
        /\ UNCHANGED <<df, plot, analisar, builds, run, job>>

plot_wind_rose ==
    /\ Fresh
    /\ \E depth \in Depths, period \in Periods :
        /\ plot' = PlotWindRose(df, depth, period)
        /\ UNCHANGED <<df, call, current_df, crosstab, result, analisar, builds, run, job>>

\* the period filter at the head of analisar_dados_corrente.py
analisar_dados_corrente ==
    /\ Fresh
    /\ \E depth \in Depths, period \in Periods :
        /\ analisar' = AnalisarFilter(df, depth, period)
        /\ UNCHANGED <<df, call, current_df, crosstab, result, plot, builds, run, job>>

Next ==
    \/ generate_current_distribution_table
    \/ plot_wind_rose
    \/ analisar_dados_corrente

Spec == Init /\ [][Next]_vars

\* Dense inputs: the sector block and up to MaxExtra more observations of
\* the same depth, month and speed, each in the sector N or NNE
DenseObservations ==
    [st_ocean : {1}, year : {2021}, month : {1}, velocidade : {7}, direcao : {14, 16}]

InitDense ==
    /\ df \in {SectorBlock \o extra : extra \in SeqsUpTo(DenseObservations, MaxExtra)}
    /\ Fresh
    /\ builds = NoBuilds
    /\ run = NoRun
    /\ job = NoJob

SpecDense == InitDense /\ [][Next]_vars

(***************************************************************************)
(* Two callers building tables from the same df, their steps interleaved.  *)
(* A build reads df once, at line 45; everything after works on its own    *)
(* locals.                                                                 *)
(***************************************************************************)
BuildIds == {"a", "b"}

IdleBuild == [pc |-> "idle", depth |-> 0, period |-> None, rows |-> << >>, out |-> NoResult]

BuildObservations ==
    [st_ocean : Depths, year : {2021}, month : {1, 7}, velocidade : {5}, direcao : {14}]

InitBuilds ==
    /\ df \in {SectorBlock \o extra : extra \in SeqsUpTo(BuildObservations, MaxObs)}
    /\ Fresh
    /\ builds = [b \in BuildIds |-> IdleBuild]
    /\ run = NoRun
    /\ job = NoJob

\* a caller enters generate_current_distribution_table(df, depth, period=period)
\* with a pair no other caller has
build_call ==
    \E b \in BuildIds, depth \in Depths, period \in Periods :
        /\ builds[b].pc = "idle"
        /\ \A o \in BuildIds : builds[o].pc = "idle" \/ <<builds[o].depth, builds[o].period>> # <<depth, period>>
        /\ builds' = [builds EXCEPT ![b] = [IdleBuild EXCEPT !.pc = "called", !.depth = depth, !.period = period]]
        /\ UNCHANGED <<df, call, current_df, crosstab, result, plot, analisar, run, job>>

\* lines 45-57: the depth and period filters, into the caller's locals
build_filter ==
    \E b \in BuildIds :
        /\ builds[b].pc = "called"
        /\ df' = df_after_subset(df, builds[b].depth)
        /\ builds' = [builds EXCEPT ![b] =
              IF period_raises(builds[b].period)
              THEN [@ EXCEPT !.pc = "done",
                             !.out = [status |-> "ValueError", where |-> "to_datetime", table |-> NoTable]]
              ELSE [@ EXCEPT !.pc = "filtered",
                             !.rows = filtered(df', builds[b].depth, builds[b].period)]]
        /\ UNCHANGED <<call, current_df, crosstab, result, plot, analisar, run, job>>

\* lines 59-90: the table from the caller's locals
build_return ==
    \E b \in BuildIds :
        /\ builds[b].pc = "filtered"
        /\ \E out \in {FromRows(builds[b].rows, NoThresholds, "bins")} :
              builds' = [builds EXCEPT ![b] =
                  [@ EXCEPT !.pc = "done",
                            !.out = [status |-> out.status, where |-> out.where, table |-> out.table]]]
        /\ UNCHANGED <<df, call, current_df, crosstab, result, plot, analisar, run, job>>

NextBuilds ==
    \/ build_call
    \/ build_filter
    \/ build_return

SpecBuilds == InitBuilds /\ [][NextBuilds]_vars

(***************************************************************************)
(* run_analysis: for every depth of the input and every period of the      *)
(* seasons list, the table and its CSV, then the wind rose and its PNG.    *)
(* Nothing in the loop catches an exception.                               *)
(***************************************************************************)
\* the default of the seasons parameter
run_seasons == <<None, "DJF", "MAM", "JJA", "SON">>

\* label = 'all' if period is None else period
label(period) == IF period = None THEN "all" ELSE period

csv_path(depth, period) == [dir |-> depth, file |-> "distribution", label |-> label(period), ext |-> "csv"]

fig_path(depth, period) == [dir |-> depth, file |-> "windrose", label |-> label(period), ext |-> "png"]

\* sorted(df['st_ocean'].unique())
RECURSIVE sorted(_)
sorted(S) ==
    IF S = {} THEN << >>
    ELSE LET least == CHOOSE x \in S : \A y \in S : x <= y
         IN  <<least>> \o sorted(S \ {least})

depths(d) == sorted({d[k].st_ocean : k \in 1..Len(d)})

\* Inputs of the run: for each depth and each of four months, one per
\* season, either no observation or twelve, one per sector
RunCells == <<<<1, 1>>, <<1, 4>>, <<1, 7>>, <<1, 10>>, <<2, 1>>, <<2, 4>>, <<2, 7>>, <<2, 10>>>>

RunBlock(depth, month) ==
    [j \in 1..12 |->
        [st_ocean |-> depth, year |-> 2020, month |-> month,
         velocidade |-> IF j <= 6 THEN 7 ELSE 12,
         direcao |-> IF j = 1 THEN 350 ELSE 30 * (j - 1) - 15]]

RECURSIVE RunInput(_, _)
RunInput(chosen, i) ==
    IF i > Len(RunCells) THEN << >>
    ELSE (IF i \in chosen THEN RunBlock(RunCells[i][1], RunCells[i][2]) ELSE << >>)
         \o RunInput(chosen, i + 1)

InitRun ==
    /\ df \in {RunInput(chosen, 1) : chosen \in SUBSET (1..Len(RunCells))}
    /\ Fresh
    /\ builds = NoBuilds
    /\ run = NoRun
    /\ job = NoJob

\* lines 37-46: the depths of the input, and the first pair if there is one
run_analysis ==
    /\ run.pc = "none"
    /\ run' = [pc |-> IF depths(df) = << >> THEN "done" ELSE "table",
               depths |-> depths(df), d |-> 1, p |-> 1, files |-> {}]
    /\ UNCHANGED <<df, call, current_df, crosstab, result, plot, analisar, builds, job>>

\* lines 54-61: the table of the pair and its CSV; an exception of the
\* table leaves run_analysis
run_table ==
    /\ run.pc = "table"
    /\ \E out \in {GenerateTable(df, run.depths[run.d], NoThresholds, run_seasons[run.p], "bins")} :
          run' = IF out.status = "returned"
                 THEN [run EXCEPT !.pc = "plot",
                                  !.files = @ \cup {csv_path(run.depths[run.d], run_seasons[run.p])}]
                 ELSE [run EXCEPT !.pc = "aborted"]
    /\ UNCHANGED <<df, call, current_df, crosstab, result, plot, analisar, builds, job>>

\* lines 65-74: the wind rose of the pair and its PNG, then the next pair
run_plot ==
    /\ run.pc = "plot"
    /\ \E ax \in {PlotWindRose(df, run.depths[run.d], run_seasons[run.p])} :
          run' = IF ax.status # "returned" THEN [run EXCEPT !.pc = "aborted"]
                 ELSE [run EXCEPT
                        !.files = @ \cup {fig_path(run.depths[run.d], run_seasons[run.p])},
                        !.pc = IF run.p = Len(run_seasons) /\ run.d = Len(run.depths)
                               THEN "done" ELSE "table",
                        !.p = IF run.p = Len(run_seasons) THEN 1 ELSE run.p + 1,
                        !.d = IF run.p = Len(run_seasons) THEN run.d + 1 ELSE run.d]
    /\ UNCHANGED <<df, call, current_df, crosstab, result, plot, analisar, builds, job>>

NextRun ==
    \/ run_analysis
    \/ run_table
    \/ run_plot

SpecRun == InitRun /\ [][NextRun]_vars

(***************************************************************************)
(* extrair_dados_eduarda.py: process_station for every station, run by     *)
(* joblib's Parallel, and the flattening of what the workers return.       *)
(* The workers are taken to run all at once (num_cores is at least the     *)
(* number of stations); with fewer cores the interleavings are a subset.   *)
(***************************************************************************)
stations == [i \in 1..MaxStations |-> i]

time_values == [t \in 1..MaxTimes |-> t]

\* the record appended for a station and a time
record(station, time) == [station |-> station, time |-> time]

QueuedWorker == [pc |-> "queued", records |-> << >>]

RECURSIVE flatten(_)
flatten(lists) == IF lists = << >> THEN << >> ELSE Head(lists) \o flatten(Tail(lists))

\* results, had Parallel returned them in the order the workers finish
results_as_completed(workers, finished) ==
    [i \in 1..Len(finished) |-> workers[finished[i]].records]

\* results: Parallel returns the lists in the order of the stations it was
\* given
results(workers, finished) == [i \in 1..Len(workers) |-> workers[i].records]

InitStations ==
    /\ df = << >>
    /\ Fresh
    /\ builds = NoBuilds
    /\ run = NoRun
    /\ job = NoJob

\* line 82: one delayed process_station per station
Parallel ==
    /\ job.pc = "none"
    /\ job' = [pc |-> "running", workers |-> [i \in 1..Len(stations) |-> QueuedWorker],
               finished |-> << >>, data_records |-> << >>]
    /\ UNCHANGED <<df, call, current_df, crosstab, result, plot, analisar, builds, run>>

\* lines 46-50: a worker enters process_station, records = []
process_station ==
    \E i \in 1..Len(stations) :
        /\ job.pc = "running" /\ job.workers[i].pc = "queued"
        /\ job' = [job EXCEPT !.workers[i].pc = "try"]
        /\ UNCHANGED <<df, call, current_df, crosstab, result, plot, analisar, builds, run>>

\* lines 61-68: the next record of the station
records_append ==
    \E i \in 1..Len(stations) :
        /\ job.pc = "running" /\ job.workers[i].pc = "try"
        /\ Len(job.workers[i].records) < Len(time_values)
        /\ job' = [job EXCEPT !.workers[i].records =
                      Append(@, record(stations[i], time_values[Len(@) + 1]))]
        /\ UNCHANGED <<df, call, current_df, crosstab, result, plot, analisar, builds, run>>

\* lines 70-71: an exception of the index lookup, of the extraction or of a
\* record is caught; the records appended so far stay
except_Exception ==
    \E i \in 1..Len(stations) :
        /\ job.pc = "running" /\ job.workers[i].pc = "try"
        /\ Len(job.workers[i].records) < Len(time_values)
        /\ job' = [job EXCEPT !.workers[i].pc = "except"]
        /\ UNCHANGED <<df, call, current_df, crosstab, result, plot, analisar, builds, run>>

\* line 72: return records, after the loop or after the except clause
return_records ==
    \E i \in 1..Len(stations) :
        /\ job.pc = "running"
        /\ \/ job.workers[i].pc = "except"
           \/ job.workers[i].pc = "try" /\ Len(job.workers[i].records) = Len(time_values)
        /\ job' = [job EXCEPT
                     !.workers[i].pc = IF job.workers[i].pc = "except" THEN "returned after except"
                                       ELSE "returned",
                     !.finished = Append(@, i)]
        /\ UNCHANGED <<df, call, current_df, crosstab, result, plot, analisar, builds, run>>

\* lines 82-85: every worker has returned; results and their flattening
data_records ==
    /\ job.pc = "running"
    /\ Len(job.finished) = Len(stations)
    /\ job' = [job EXCEPT !.pc = "done",
                          !.data_records = flatten(results(job.workers, job.finished))]
    /\ UNCHANGED <<df, call, current_df, crosstab, result, plot, analisar, builds, run>>

NextStations ==
    \/ Parallel
    \/ process_station
    \/ records_append
    \/ except_Exception
    \/ return_records
    \/ data_records

SpecStations == InitStations /\ [][NextStations]_vars

(***************************************************************************)
(* Vocabulary of the properties, stated from the inputs and the call.      *)
(***************************************************************************)
Called == call.mode # "none"

Returned == result.status = "returned"

\* the call got as far as the cross-tabulation (line 69)
Crosstabbed == result.where \in {"int", "columns", "return"}

\* the speed bin edges the call works with
Edges ==
    IF call.speed_thresholds = NoThresholds
    THEN [i \in 1..11 |-> 5 * (i - 1)]
    ELSE call.speed_thresholds

StrictlyIncreasing(e) == \A i \in 1..(Len(e) - 1) : e[i] < e[i + 1]

SeasonMonths(p) ==
    CASE p = "DJF" -> {12, 1, 2}
      [] p = "MAM" -> {3, 4, 5}
      [] p = "JJA" -> {6, 7, 8}
      [] p = "SON" -> {9, 10, 11}
      [] p = "January" -> {1}
      [] p = "February" -> {2}
      [] p = "March" -> {3}
      [] p = "April" -> {4}
      [] p = "May" -> {5}
      [] p = "June" -> {6}
      [] p = "July" -> {7}
      [] p = "August" -> {8}
      [] p = "September" -> {9}
      [] p = "October" -> {10}
      [] p = "November" -> {11}
      [] p = "December" -> {12}
      [] OTHER -> {}

ValidPeriod(p) == p = None \/ SeasonMonths(p) # {}

\* the call's inputs are those the specification calls valid
ValidCall ==
    /\ Called
    /\ ValidPeriod(call.period)
    /\ Len(Edges) >= 2 /\ StrictlyIncreasing(Edges)

\* the rows of df that the depth and the period select
Selected ==
    {k \in 1..Len(df) :
        /\ df[k].st_ocean = call.depth
        /\ call.period = None \/ df[k].month \in SeasonMonths(call.period)}

SectorCentres == {30 * j : j \in 0..11}

\* the rows of the returned table above Total, Mean and Maximum
BinRows == 1..(Len(result.table.index) - 3)

TotalRow == Len(result.table.index) - 2
MeanRow == Len(result.table.index) - 1
MaximumRow == Len(result.table.index)

Cell(r, c) == result.table.values[r][c]

SectorSum(r) == SumSeq([c \in 1..12 |-> Cell(r, c)])

Abs(x) == IF x < 0 THEN -x ELSE x

(***************************************************************************)
(* C1.  When no observation matches the requested depth, or none survives  *)
(* the period filter, the call does not fail and returns a table whose     *)
(* every cell (Total, Mean, Maximum and Omni included) is 0.00.            *)
(* The code raises instead: the cross-tabulation of no rows has no sector  *)
(* column, and naming 13 columns on it is refused.                         *)
(***************************************************************************)
C1_EmptyGivesZeroTable ==
    (ValidCall /\ Selected = {}) =>
        /\ Returned
        /\ \A r \in 1..Len(result.table.values) :
             \A c \in 1..Len(result.table.values[r]) : Cell(r, c) = 0

(***************************************************************************)
(* C2.  For every valid input the returned table has one row per speed bin *)
(* (len(speed_thresholds) - 1 rows), then Total, Mean, Maximum, and 13     *)
(* columns, also when a speed bin or a sector holds no observation.        *)
(* The code drops the speed bins and the sectors nothing was counted in;   *)
(* with a sector missing the call raises.                                  *)
(***************************************************************************)
C2_FullShape ==
    ValidCall =>
        /\ Returned
        /\ Len(result.table.index) = (Len(Edges) - 1) + 3
        /\ \A r \in 1..Len(result.table.values) : Len(result.table.values[r]) = 13
        /\ result.table.index[TotalRow].text = "Total"
        /\ result.table.index[MeanRow].text = "Mean"
        /\ result.table.index[MaximumRow].text = "Maximum"

(***************************************************************************)
(* C3.  Every filtered observation with a direction in [0, 360) is in      *)
(* exactly one of the 12 sectors, the sector boundaries 15, 45, ..., 345   *)
(* included.  The code leaves the direction 345 without a sector.          *)
(***************************************************************************)
C3_EveryDirectionHasOneSector ==
    Crosstabbed =>
        \A k \in 1..Len(current_df) :
            current_df[k].direction \in 0..359 =>
                Cardinality({c \in SectorCentres : current_df[k].DirBin = c}) = 1

(***************************************************************************)
(* C4.  Sector N (0 degrees) receives every direction in [0, 15) and in    *)
(* [345, 360); a direction d in [15, 345) is in the sector of centre c     *)
(* with c - 15 <= d < c + 15.  The code gives 345 no sector.               *)
(***************************************************************************)
C4_SectorIntervals ==
    Crosstabbed =>
        \A k \in 1..Len(current_df) :
            LET d == current_df[k].direction
                b == current_df[k].DirBin
            IN  /\ (d \in 0..14 \/ d \in 345..359) => b = 0
                /\ d \in 15..344 => (b \in SectorCentres /\ b - 15 <= d /\ d < b + 15)

(***************************************************************************)
(* C5.  Each observation is in the speed bin i with                        *)
(* speed_thresholds[i] <= speed < speed_thresholds[i+1]; an observation    *)
(* with a speed below the first threshold, or at or above the last, is     *)
(* counted in no cell of the table.                                        *)
(***************************************************************************)
C5_HalfOpenSpeedBins ==
    Crosstabbed =>
        /\ \A k \in 1..Len(current_df) :
             LET s == current_df[k].speed
                 b == current_df[k].SpeedBin
             IN  /\ \A i \in 1..(Len(Edges) - 1) :
                        (Edges[i] <= s /\ s < Edges[i + 1]) <=> b = i
                 /\ (s < Edges[1] \/ s >= Edges[Len(Edges)]) => b = NaN
        /\ \A r \in 1..Len(crosstab.index) : \A c \in 1..Len(crosstab.columns) :
             crosstab.values[r][c] =
                Cardinality({k \in 1..Len(current_df) :
                    /\ Edges[crosstab.index[r]] <= current_df[k].speed
                    /\ current_df[k].speed < Edges[crosstab.index[r] + 1]
                    /\ current_df[k].DirBin = crosstab.columns[c]})

\* a table is returned although an observation lies below the first threshold
C5_Witness ==
    /\ Returned
    /\ \E k \in 1..Len(current_df) :
         current_df[k].speed < Edges[1] /\ current_df[k].SpeedBin = NaN

(***************************************************************************)
(* C6.  In 'bins' mode each (speed bin, sector) cell is 100 x (number of   *)
(* observations in the cell) / (number of observations left by the depth   *)
(* and period filters, binned or not), rounded to 2 decimals.              *)
(***************************************************************************)
C6_DivisorIsFilteredCount ==
    (Returned /\ call.mode = "bins") =>
        \A r \in BinRows : \A c \in 1..12 :
            Cell(r, c) =
                RoundHalfEven(
                    10000 * Cardinality({k \in 1..Len(current_df) :
                        /\ result.table.index[r].lo <= current_df[k].speed
                        /\ current_df[k].speed < result.table.index[r].hi
                        /\ current_df[k].DirBin = 30 * (c - 1)}),
                    Cardinality(Selected))

\* a table in 'bins' mode with a selected observation that is in no cell
C6_Witness ==
    /\ Returned /\ call.mode = "bins"
    /\ \E k \in 1..Len(current_df) :
         current_df[k].SpeedBin = NaN \/ current_df[k].DirBin = NaN
    /\ Cardinality(Selected) = 13

(***************************************************************************)
(* C7.  For all valid inputs, the last speed-bin row of the table built in *)
(* 'accumulate' mode is the Total row of the table built in 'bins' mode    *)
(* from the same inputs, column by column.                                 *)
(* The code returns no table in 'accumulate' mode (see C8).                *)
(***************************************************************************)
C7_AccumulateLastRowIsBinsTotal ==
    call.mode = "accumulate" =>
        LET bins == GenerateTable(df, call.depth, call.speed_thresholds, call.period, "bins")
        IN  bins.status = "returned" =>
                /\ Returned
                /\ \A c \in 1..13 :
                     Cell(Len(result.table.index) - 3, c)
                        = bins.table.values[Len(bins.table.index) - 2][c]

(***************************************************************************)
(* C8.  In 'accumulate' mode the speed-bin rows are labelled "< hi" (in    *)
(* 'bins' mode "lo-hi"), followed by Total, Mean, Maximum, and the call    *)
(* completes without error for the default thresholds.                     *)
(* The code raises in 'accumulate' mode: int() of a "lo-hi" label.         *)
(***************************************************************************)
C8_RowLabels ==
    /\ (Returned /\ call.mode = "bins") =>
          \A r \in BinRows :
              /\ result.table.index[r].text = "lo-hi"
              /\ \E i \in 1..(Len(Edges) - 1) :
                    /\ result.table.index[r].lo = Edges[i]
                    /\ result.table.index[r].hi = Edges[i + 1]
    /\ (/\ call.mode = "accumulate"
        /\ call.speed_thresholds = NoThresholds
        /\ GenerateTable(df, call.depth, call.speed_thresholds, call.period, "bins").status
              = "returned") =>
          /\ Returned
          /\ \A r \in BinRows : result.table.index[r].text = "< hi"
          /\ result.table.index[TotalRow].text = "Total"
          /\ result.table.index[MeanRow].text = "Mean"
          /\ result.table.index[MaximumRow].text = "Maximum"

C10_MeanRow ==
    Returned =>
        /\ \A c \in 1..12 :
              Cell(MeanRow, c) =
                  RoundHalfEven(SumSeq([r \in BinRows |-> Cell(r, c)]),
                                Cardinality(BinRows))
        /\ Cell(MeanRow, 13) = RoundHalfEven(SectorSum(MeanRow), 12)

(***************************************************************************)
(* C11.  The Maximum row holds, for each sector column, the maximum over   *)
(* the speed-bin rows only, and the Omni cell of the Maximum row is the    *)
(* maximum of the Maximum row's 12 sector values, not the maximum of the   *)
(* Omni column.  The code takes the maximum of the Omni column.            *)
(***************************************************************************)
C11_MaximumRow ==
    Returned =>
        /\ \A c \in 1..12 :
              /\ \E r \in BinRows : Cell(MaximumRow, c) = Cell(r, c)
              /\ \A r \in BinRows : Cell(MaximumRow, c) >= Cell(r, c)
        /\ \E c \in 1..12 : Cell(MaximumRow, 13) = Cell(MaximumRow, c)
        /\ \A c \in 1..12 : Cell(MaximumRow, 13) >= Cell(MaximumRow, c)

(***************************************************************************)
(* C12.  In 'bins' mode, when every filtered observation has a speed       *)
(* inside [first threshold, last threshold), the percentages of the        *)
(* speed-bin rows sum to 100% in each column (the 12 sector columns and    *)
(* Omni), up to rounding.                                                  *)
(***************************************************************************)
AllSpeedsInRange ==
    \A k \in Selected :
        Edges[1] <= df[k].velocidade /\ df[k].velocidade < Edges[Len(Edges)]

ColumnSum(c) == SumSeq([r \in BinRows |-> Cell(r, c)])

C15_BadThresholdsFailFirst ==
    (Called /\ (Len(Edges) < 2 \/ ~StrictlyIncreasing(Edges))) =>
        /\ result.status = "ValueError"
        /\ result.where \notin {"to_datetime", "int", "columns"}
        /\ current_df = << >>
        /\ crosstab = NoCrosstab

(***************************************************************************)
(* C16.  The period filter of generate_current_distribution_table and of   *)
(* plot_wind_rose: a season code keeps a row exactly when its month is in  *)
(* the season's set, whatever its year; a month name keeps a row exactly   *)
(* when its month equals that month; None keeps every row at the depth.    *)
(***************************************************************************)
Kept(rows) == [k \in 1..Len(rows) |-> <<rows[k].speed, rows[k].direction>>]

ShouldKeep(depth, period) ==
    LET rows == SelectSeq(df, LAMBDA row :
                    /\ row.st_ocean = depth
                    /\ period = None \/ row.month \in SeasonMonths(period))
    IN  [k \in 1..Len(rows) |-> <<rows[k].velocidade, rows[k].direcao>>]

C16_PeriodFilter ==
    /\ (Called /\ ValidPeriod(call.period)) =>
           Kept(current_df) = ShouldKeep(call.depth, call.period)
    /\ (plot.status # "none" /\ ValidPeriod(plot.period)) =>
           /\ plot.status = "returned"
           /\ Kept(plot.df_plot) = ShouldKeep(plot.depth, plot.period)

\* plot_wind_rose for a season has dropped a July row of the depth and kept
\* the twelve January rows
C16_Witness ==
    /\ plot.status = "returned" /\ plot.period = "DJF" /\ plot.depth = 1
    /\ Len(plot.df_plot) = 12
    /\ \E k \in 1..Len(df) : df[k].st_ocean = 1 /\ df[k].month = 7

(***************************************************************************)
(* C19.  In src/analisar_dados_corrente.py, after the period filter, the   *)
(* speed and direction series contain exactly the same timestamps,         *)
(* including when the filter removes at least one observation.  The code   *)
(* masks direction with a mask computed from the already filtered speed,   *)
(* which has the wrong length as soon as one observation was removed.      *)
(***************************************************************************)
C19_SameTimestamps ==
    (analisar.status # "none" /\ ValidPeriod(analisar.period)) =>
        /\ analisar.status = "filtered"
        /\ analisar.speed = analisar.direction

(***************************************************************************)
(* C13.  Every cell of the returned table is a percentage between 0 and    *)
(* 100 inclusive, in both 'bins' and 'accumulate' mode and in every row    *)
(* including Total, Mean and Maximum and the Omni column.                  *)
(***************************************************************************)
AllRows == 1..Len(result.table.index)

C13_EveryCellWithin0And100 ==
    Returned => \A r \in AllRows, c \in 1..13 : Cell(r, c) >= 0 /\ Cell(r, c) <= 10000

(***************************************************************************)
(* C13, amended.  Every cell of the returned table is at least 0.  A       *)
(* sector cell of a speed-bin row, of Mean or of Maximum is at most 100.   *)
(* The Omni cells and the Total row are sums of cells already rounded to   *)
(* 2 decimals and can exceed 100 by at most 0.005 for each rounded cell    *)
(* summed: 12 for an Omni cell, the number of speed-bin rows for a sector  *)
(* cell of Total, 12 times that number for the Omni cell of Total.         *)
(***************************************************************************)
RoundedCellsSummed(r, c) ==
    (IF c = 13 THEN 12 ELSE 1) *
    (IF r = TotalRow THEN Cardinality(BinRows) ELSE IF c = 13 THEN 1 ELSE 0)

C13_CellsWithinRoundedSums ==
    Returned =>
        \A r \in AllRows, c \in 1..13 :
            /\ Cell(r, c) >= 0
            /\ 2 * Cell(r, c) <= 2 * 10000 + RoundedCellsSummed(r, c)

\* a returned table with an Omni cell above 100
C13_Witness ==
    /\ Returned
    /\ \E r \in BinRows : Cell(r, 13) > 10000
    /\ Cell(TotalRow, 13) > 10000

(***************************************************************************)
(* C17.  A table build leaves the input observation table df unchanged     *)
(* and touches no state shared between builds, so builds for different     *)
(* (depth, period) pairs run in any order or interleaving return the same  *)
(* tables as when run alone.                                               *)
(***************************************************************************)
Alone(b) ==
    LET out == GenerateTable(df, b.depth, NoThresholds, b.period, "bins")
    IN  [status |-> out.status, where |-> out.where, table |-> out.table]

C17_BuildsAreIndependent ==
    /\ [][df' = df]_vars
    /\ [](\A b \in DOMAIN builds : builds[b].pc = "done" => builds[b].out = Alone(builds[b]))

\* one caller has returned a table while the other was between its filter
\* and its table
C17_Witness ==
    /\ DOMAIN builds = BuildIds
    /\ builds["a"].pc = "filtered" /\ Len(builds["a"].rows) > 0
    /\ builds["b"].pc = "done" /\ builds["b"].out.status = "returned"

(***************************************************************************)
(* C18.  run_analysis: for any input data, the run terminates having       *)
(* written, for every depth present in the input and every period of       *)
(* [None, DJF, MAM, JJA, SON], exactly one distribution CSV and one        *)
(* wind-rose PNG, and no two (depth, period) pairs write to the same path; *)
(* a pair whose table cannot be built does not prevent the outputs of the  *)
(* other pairs.  Stated of the run once it has ended, by its last pair or   *)
(* by an exception: in the code the first table that raises ends the run.  *)
(***************************************************************************)
RunPairs ==
    {<<df[k].st_ocean, run_seasons[i]>> : k \in 1..Len(df), i \in 1..Len(run_seasons)}

PathsDistinct ==
    \A x, y \in RunPairs :
        x # y => {csv_path(x[1], x[2]), fig_path(x[1], x[2])} \cap
                 {csv_path(y[1], y[2]), fig_path(y[1], y[2])} = {}

C18_EveryOutputWritten ==
    run.pc \in {"done", "aborted"} =>
        /\ run.pc = "done"
        /\ PathsDistinct
        /\ \A pair \in RunPairs : /\ csv_path(pair[1], pair[2]) \in run.files
                                  /\ fig_path(pair[1], pair[2]) \in run.files

(***************************************************************************)
(* C20.  extrair_dados_eduarda.py: stations are processed in parallel and  *)
(* independently; an exception while processing one station is caught      *)
(* inside process_station, never aborts the run nor affects the records of *)
(* other stations, and the flattened output lists the records grouped by   *)
(* station in the order of the station list, regardless of the order in    *)
(* which the parallel workers finish.                                      *)
(***************************************************************************)
AllRecords(station) == [t \in 1..Len(time_values) |-> record(station, time_values[t])]

RecordsOf(station) == SelectSeq(job.data_records, LAMBDA r : r.station = station)

Caught(i) == job.workers[i].pc = "returned after except"

C20_StationsIndependentAndInOrder ==
    /\ (job.pc = "running" /\ \A i \in 1..Len(job.workers) : job.workers[i].pc \in {"returned", "returned after except"})
           => ENABLED data_records
    /\ job.pc = "done" =>
        /\ \A i \in 1..Len(stations) :
              /\ ~Caught(i) => RecordsOf(stations[i]) = AllRecords(stations[i])
              /\ Caught(i) => /\ Len(RecordsOf(stations[i])) < Len(time_values)
                              /\ RecordsOf(stations[i]) =
                                   SubSeq(AllRecords(stations[i]), 1, Len(RecordsOf(stations[i])))
        /\ \A m, n \in 1..Len(job.data_records) :
              m < n => job.data_records[m].station <= job.data_records[n].station
        /\ Len(job.data_records) = SumSeq([i \in 1..Len(stations) |-> Len(RecordsOf(stations[i]))])

\* the run has ended with the last station finished first, one station cut
\* short by an exception after its first record, and another complete
C20_Witness ==
    /\ job.pc = "done"
    /\ job.finished[1] = Len(stations)
    /\ \E i \in 1..Len(stations) : Caught(i) /\ Len(RecordsOf(stations[i])) = 1
    /\ \E i \in 1..Len(stations) : ~Caught(i)

====
